---- MODULE Spec2Model ----
(***************************************************************************)
(* Model of binance_p2p_python.py: get_binance_p2p_rate fans out to two    *)
(* directional fetches (BUY, SELL) with asyncio.gather, each fetch turns   *)
(* one HTTP response into an average price or None, and the orchestrator   *)
(* assembles the Rate Result.                                              *)
(*                                                                         *)
(* Numbers are fixed-point: a price is an integer number of hundredths, a  *)
(* directional average is the exact fraction num/den, and round(x, 2) is   *)
(* rounding of that fraction to an integer number of hundredths (ties to   *)
(* even, as Python's round).                                               *)
(***************************************************************************)
EXTENDS Integers, Sequences, FiniteSets, TLC

VARIABLES pc, fpc, net, issued, resp, exit, ret, order, log, result

vars == <<pc, fpc, net, issued, resp, exit, ret, order, log, result>>

\* Longest advertisement list a response carries, and the largest price
\* (in hundredths) an advertisement shows.
MaxAds == 2
MaxPrice == 2

Dirs == {"BUY", "SELL"}

---------------------------------------------------------------------------
(* JSON responses *)

\* Values of the 'code' field: absent, the success literal, another string.
Codes == {"<missing>", "000000", "000002"}

\* Values of the 'success' field: absent, true, false, the number 1.
Successes == {"<missing>", "true", "false", "1"}

\* One advertisement: float(ad['adv']['price']) either parses to `cents`
\* hundredths or raises (a malformed price, or a missing 'adv'/'price' key).
Ads == [parses : {TRUE}, cents : 0..MaxPrice] \cup {[parses |-> FALSE, cents |-> 0]}

AdLists == UNION {[1..k -> Ads] : k \in 1..MaxAds}

\* Values of the 'data' field: absent, null, false, a number other than 0, a
\* non-empty string, a non-empty object, or a list of advertisements.
NonListTypes == {"<missing>", "null", "false", "number", "string", "object"}

NonListData == [type : NonListTypes, items : {<< >>}]

ListData(lists) == [type : {"list"}, items : lists]

NoData == [type |-> "<missing>", items |-> << >>]

\* What one request ends with: a transport error, a body that is not JSON, a
\* JSON body that is not an object, or a JSON object.
Bodyless == [kind : {"conn_error", "timeout", "non_json", "not_object"},
             code : {"<missing>"}, success : {"<missing>"}, data : {NoData}]

\* Every indicator combination with every shape of 'data' (lists of at most
\* one advertisement), and every advertisement list under a success code.
ShapeResponses ==
    [kind : {"object"}, code : Codes, success : Successes,
     data : NonListData \cup ListData({<< >>} \cup {<<a>> : a \in Ads})]

PricedResponses ==
    [kind : {"object"}, code : {"000000"}, success : {"<missing>"},
     data : ListData(AdLists)]

Responses == Bodyless \cup ShapeResponses \cup PricedResponses

Answers == {r \in Responses : r.kind # "timeout"}

TimedOut == CHOOSE r \in Bodyless : r.kind = "timeout"

NoResponse == [kind |-> "<none>", code |-> "<missing>", success |-> "<missing>",
               data |-> NoData]

---------------------------------------------------------------------------
(* Values *)

\* Optional[float] returned by a directional fetch: None, or num/den.
NoAvg == [some |-> FALSE, num |-> 0, den |-> 1]

Avg(n, d) == [some |-> TRUE, num |-> n, den |-> d]

\* A field of the Rate Result: None, or a number of hundredths.
None == [some |-> FALSE, val |-> 0]

Some(v) == [some |-> TRUE, val |-> v]

\* round(num/den, 2) for num >= 0, den > 0: nearest hundredth, ties to even.
Round2(num, den) ==
    LET q == num \div den
        r == num % den
    IN  IF 2 * r < den THEN q
        ELSE IF 2 * r > den THEN q + 1
        ELSE IF q % 2 = 0 THEN q ELSE q + 1

\* Python truthiness of an Optional[float]: None and 0.0 are falsy.
Truthy(a) == a.some /\ a.num # 0

RECURSIVE SumCents(_)
SumCents(ads) ==
    IF ads = << >> THEN 0 ELSE Head(ads).cents + SumCents(Tail(ads))

---------------------------------------------------------------------------
(* fetch_trade_type_average *)

\* Variant: the indicator is not consulted (if has_data: ...).
IsSuccessIgnored(r) == TRUE

\* is_success: data.get('code') == "000000" or data.get('success') == True.
\* Python's == makes the number 1 equal to True.
IsSuccess(r) == r.code = "000000" \/ r.success \in {"true", "1"}

\* has_data: data.get('data') and len(data.get('data', [])) > 0, for a value
\* len() accepts (len() of a number raises, see Raised).
HasData(r) ==
    \/ r.data.type \in {"string", "object"}
    \/ r.data.type = "list" /\ Len(r.data.items) > 0

\* The exception the try body raises on response r, "" when it raises none.
Raised(r) ==
    CASE r.kind = "conn_error" -> "ClientConnectionError"
      [] r.kind = "timeout" -> "TimeoutError"
      [] r.kind = "non_json" -> "ContentTypeError"
      [] r.kind = "not_object" -> "AttributeError"
      [] OTHER ->
           IF r.data.type = "number" THEN "TypeError"
           ELSE IF IsSuccess(r) /\ HasData(r)
                THEN IF r.data.type # "list" THEN "TypeError"
                     ELSE IF \E i \in 1..Len(r.data.items) : ~r.data.items[i].parses
                          THEN "ValueError"
                          ELSE ""
                ELSE ""

\* sum(prices) / len(prices), unrounded.
Mean(ads) == Avg(SumCents(ads), Len(ads))

\* Variant: the handler is except aiohttp.ClientError, which a timeout or a
\* parse error passes.
CaughtClientErrorsOnly(exc) == exc \in {"ClientConnectionError", "ContentTypeError"}

\* except Exception: every exception the body can raise is an Exception.
Caught(exc) == TRUE

\* Variant: the error line leaves the trade direction out.
ErrorLineNoDirection(d, exc) == <<[msg |-> "fetch_error", dir |-> "", val |-> 0]>>

\* The handler's print: one error line that names the trade direction.
ErrorLine(d, exc) == <<[msg |-> "fetch_error", dir |-> d, val |-> 0]>>

\* Where the coroutine leaves: "avg" (return of the mean), "none" (the plain
\* return None), "except" (the handler's return None), "raise" (an exception
\* that leaves the coroutine).
FetchExit(r) ==
    LET exc == Raised(r)
    IN  IF exc # "" THEN (IF Caught(exc) THEN "except" ELSE "raise")
        ELSE IF IsSuccess(r) /\ HasData(r) THEN "avg"
        ELSE "none"

FetchValue(r) == IF FetchExit(r) = "avg" THEN Mean(r.data.items) ELSE NoAvg

FetchLog(d, r) ==
    IF FetchExit(r) = "except" THEN ErrorLine(d, Raised(r)) ELSE << >>

\* Variant: a fetch that ended in the handler is run again.
FetchPcRetry(ex) == IF ex = "except" THEN "ready" ELSE "done"

\* The coroutine has no loop: after its return it is done.
FetchPcAfter(ex) == "done"

---------------------------------------------------------------------------
(* fetch_with_timeout *)

\* Variant: no timeout on the session, so a silent server is waited for.
CompletesWithoutTimeout(fate) == fate = "answering"

\* ClientTimeout(total=10): a request the server never answers still ends,
\* with a TimeoutError.
Completes(fate) == fate \in {"answering", "silent"}

Outcomes(fate) == IF fate = "silent" THEN {TimedOut} ELSE Answers

---------------------------------------------------------------------------
(* get_binance_p2p_rate *)

Unset == [kind |-> "unset", buy |-> None, sell |-> None, average |-> None]

Null == [kind |-> "null", buy |-> None, sell |-> None, average |-> None]

Line(m, v) == [msg |-> m, dir |-> "", val |-> v]

\* Variant: the wait returns at the first finished fetch.
JoinReadyFirstCompleted == \E d \in Dirs : fpc[d] = "done"

\* asyncio.gather returns once every awaitable has finished.
JoinReady == \A d \in Dirs : fpc[d] = "done"

\* Variant: results taken in completion order (as from as_completed).
GatherResultsByCompletion == <<ret[order[1]], ret[order[2]]>>

\* buy_avg, sell_avg = await asyncio.gather(BUY, SELL): results by argument
\* position, whatever the completion order.
GatherResults == <<ret["BUY"], ret["SELL"]>>

\* The branch taken when buy_avg and sell_avg are both truthy.
FullResult(b, s) ==
    [kind |-> "record",
     buy |-> Some(Round2(b.num, b.den)),
     sell |-> Some(Round2(s.num, s.den)),
     average |-> Some(Round2(b.num * s.den + s.num * b.den, 2 * b.den * s.den))]

\* Variant: the market average falls back to the one value at hand.
PartialResultFallback(b, s) ==
    [kind |-> "record",
     buy |-> IF Truthy(b) THEN Some(Round2(b.num, b.den)) ELSE None,
     sell |-> IF Truthy(s) THEN Some(Round2(s.num, s.den)) ELSE None,
     average |-> IF Truthy(b) THEN Some(Round2(b.num, b.den))
                 ELSE IF Truthy(s) THEN Some(Round2(s.num, s.den)) ELSE None]

\* The fall-through branch: whatever is truthy, and no market average.
PartialResult(b, s) ==
    [kind |-> "record",
     buy |-> IF Truthy(b) THEN Some(Round2(b.num, b.den)) ELSE None,
     sell |-> IF Truthy(s) THEN Some(Round2(s.num, s.den)) ELSE None,
     average |-> None]

BuildResult(b, s) ==
    IF Truthy(b) /\ Truthy(s) THEN FullResult(b, s) ELSE PartialResult(b, s)

\* The prints of either branch; a field prints when it is truthy.
FieldTruthy(f) == f.some /\ f.val # 0

ResultLog(b, s) ==
    LET res == BuildResult(b, s)
    IN  IF Truthy(b) /\ Truthy(s)
        THEN <<Line("buy", res.buy.val), Line("sell", res.sell.val),
               Line("market", res.average.val)>>
        ELSE (IF FieldTruthy(res.buy) THEN <<Line("buy", res.buy.val)>> ELSE << >>)
             \o (IF FieldTruthy(res.sell) THEN <<Line("sell", res.sell.val)>> ELSE << >>)
             \o (IF ~FieldTruthy(res.buy) \/ ~FieldTruthy(res.sell)
                 THEN <<Line("missing_info", 0)>> ELSE << >>)

---------------------------------------------------------------------------
(* State machine *)

Init ==
    /\ pc = "call"
    /\ fpc = [d \in Dirs |-> "idle"]
    /\ net = [d \in Dirs |-> "idle"]
    /\ issued = [d \in Dirs |-> 0]
    /\ resp = [d \in Dirs |-> NoResponse]
    /\ exit = [d \in Dirs |-> "running"]
    /\ ret = [d \in Dirs |-> NoAvg]
    /\ order = << >>
    /\ log = << >>
    /\ result = Unset

\* asyncio.gather(...) wraps both coroutines in tasks.
Gather ==
    /\ pc = "call"
    /\ pc' = "gather"
    /\ fpc' = [d \in Dirs |-> "ready"]
    /\ UNCHANGED <<net, issued, resp, exit, ret, order, log, result>>

\* The task of direction d runs to its await: one POST with tradeType d is
\* sent; the server will answer it or stay silent.
\* (The two sends are taken in either order: the connection set-up of each
\* request suspends its task.)
Issue(d) ==
    /\ pc = "gather"
    /\ fpc[d] = "ready"
    /\ \E fate \in {"answering", "silent"} : net' = [net EXCEPT ![d] = fate]
    /\ issued' = [issued EXCEPT ![d] = @ + 1]
    /\ fpc' = [fpc EXCEPT ![d] = "sent"]
    /\ UNCHANGED <<pc, resp, exit, ret, order, log, result>>

\* The request of direction d ends with response r and the coroutine runs to
\* its return (no await follows response.json()).
Complete(d) ==
    /\ pc = "gather"
    /\ fpc[d] = "sent"
    /\ Completes(net[d])
    /\ \E r \in Outcomes(net[d]) :
         /\ resp' = [resp EXCEPT ![d] = r]
         /\ exit' = [exit EXCEPT ![d] = FetchExit(r)]
         /\ ret' = [ret EXCEPT ![d] = FetchValue(r)]
         /\ log' = log \o FetchLog(d, r)
         /\ fpc' = [fpc EXCEPT ![d] = FetchPcAfter(FetchExit(r))]
    /\ net' = [net EXCEPT ![d] = "closed"]
    /\ order' = Append(order, d)
    /\ UNCHANGED <<pc, issued, result>>

\* gather returns (or re-raises a task's exception into the outer handler),
\* and the Rate Result is built, printed and returned.
Join ==
    /\ pc = "gather"
    /\ JoinReady
    /\ IF \E d \in Dirs : exit[d] = "raise"
       THEN /\ result' = Null
            /\ log' = Append(log, Line("general_error", 0))
       ELSE LET g == GatherResults
            IN  /\ result' = BuildResult(g[1], g[2])
                /\ log' = log \o ResultLog(g[1], g[2])
    /\ pc' = "done"
    /\ UNCHANGED <<fpc, net, issued, resp, exit, ret, order>>

Next ==
    \/ Gather
    \/ \E d \in Dirs : Issue(d)
    \/ \E d \in Dirs : Complete(d)
    \/ Join

Spec == Init /\ [][Next]_vars

\* The event loop runs every ready task, and every issued request ends (with a
\* response, an error or the timeout).
FairSpec ==
    /\ Spec
    /\ WF_vars(Gather)
    /\ \A d \in Dirs : WF_vars(Issue(d)) /\ WF_vars(Complete(d))
    /\ WF_vars(Join)

---------------------------------------------------------------------------
(* Vocabulary of the properties, stated on responses and results *)

Field(d) == IF d = "BUY" THEN result.buy ELSE result.sell

\* 'code' is the string "000000", or 'success' equals true (as the program's
\* language compares: JSON true, and the number 1).
HasSuccessIndicator(r) == r.code = "000000" \/ r.success \in {"true", "1"}

NonEmptyList(data) == data.type = "list" /\ data.items # << >>

UnparsablePrice(data) ==
    data.type = "list" /\ \E i \in 1..Len(data.items) : ~data.items[i].parses

\* The failures of a directional fetch: connection error, timeout, non-JSON
\* body, a body that is not an object, unsuccessful indicator, empty or
\* missing data, unparsable price.
Failure(r) ==
    \/ r.kind \in {"conn_error", "timeout", "non_json", "not_object"}
    \/ /\ r.kind = "object"
       /\ \/ ~HasSuccessIndicator(r)
          \/ r.data.type \in {"<missing>", "null"}
          \/ r.data.type = "list" /\ r.data.items = << >>
          \/ UnparsablePrice(r.data)

ErrorLogged(d) ==
    \E i \in 1..Len(log) : log[i].msg = "fetch_error" /\ log[i].dir = d

FullOutcome ==
    result.kind = "record" /\ result.buy.some /\ result.sell.some /\ result.average.some

PartialOutcome == result.kind = "record" /\ ~result.average.some

NullOutcome == result.kind = "null"

---------------------------------------------------------------------------
(* Properties *)

\* C1: in every Rate Result returned, 'average' is present if and only if
\* both 'buy' and 'sell' are present.
AverageIffBothPresent ==
    result.kind = "record" =>
        (result.average.some <=> (result.buy.some /\ result.sell.some))

\* C1 witness: a returned record, SELL having completed first, in which one
\* directional field is present and the other is not.
AverageIffBothPresent_Witness ==
    /\ pc = "done" /\ result.kind = "record"
    /\ order = <<"SELL", "BUY">>
    /\ result.sell.some /\ ~result.buy.some

\* C2: every failure inside a directional fetch is absorbed into an absent
\* directional value: with a failure in BUY and/or SELL the call returns a
\* Rate Result record (never the null outcome), the failed direction's field
\* is absent, and with both directions failing all three fields are absent.
FailuresAbsorbed ==
    (pc = "done" /\ \E d \in Dirs : Failure(resp[d])) =>
        /\ result.kind = "record"
        /\ \A d \in Dirs : Failure(resp[d]) => (~ret[d].some /\ ~Field(d).some)
        /\ (\A d \in Dirs : Failure(resp[d])) =>
               (~result.buy.some /\ ~result.sell.some /\ ~result.average.some)

\* C2 witness: BUY timed out and SELL carried an unparsable price, and the
\* call has returned.
FailuresAbsorbed_Witness ==
    /\ pc = "done"
    /\ resp["BUY"].kind = "timeout"
    /\ UnparsablePrice(resp["SELL"].data)
    /\ HasSuccessIndicator(resp["SELL"])

\* C3: the orchestrator is a join, not a race: a result exists only once both
\* directional fetches have completed, each on the response to its own single
\* request, and while a fetch is still pending the orchestrator is still
\* waiting for it (the completion or failure of the other one does not end it).
JoinNotRace ==
    /\ (pc = "done" \/ result.kind # "unset") =>
           \A d \in Dirs : fpc[d] = "done" /\ resp[d] \in Responses
    /\ \A d \in Dirs : fpc[d] \in {"ready", "sent"} => pc = "gather"
    /\ \A d \in Dirs :
           (fpc[d] = "sent" /\ order # << >>) => net[d] \in {"answering", "silent"}

\* C3 witness: the first fetch to complete failed, the other one still ran
\* to an average, and the result was built after both.
JoinNotRace_Witness ==
    /\ pc = "done"
    /\ Len(order) = 2
    /\ exit[order[1]] = "except"
    /\ exit[order[2]] = "avg"

\* C4: 'buy' is present exactly when the BUY fetch returned an average (any
\* non-None value, 0 included), likewise 'sell'; and when both fetches
\* returned an average the outcome is the full Rate Result.
FieldsFollowReturns ==
    pc = "done" =>
        /\ result.kind = "record"
        /\ \A d \in Dirs : Field(d).some <=> ret[d].some
        /\ (\A d \in Dirs : ret[d].some) => FullOutcome

MarketOf(bl, sl) ==
    Round2(SumCents(bl) * Len(sl) + SumCents(sl) * Len(bl), 2 * Len(bl) * Len(sl))

\* C7: when both directional averages b and s are present, the result is
\* buy = round(b, 2), sell = round(s, 2), average = round((b + s) / 2, 2),
\* b and s being the unrounded means of the prices of each response.
RoundedAtAggregation ==
    (pc = "done" /\ \A d \in Dirs : ret[d].some) =>
        LET bl == resp["BUY"].data.items
            sl == resp["SELL"].data.items
        IN  /\ result.kind = "record"
            /\ result.buy = Some(Round2(SumCents(bl), Len(bl)))
            /\ result.sell = Some(Round2(SumCents(sl), Len(sl)))
            /\ result.average = Some(MarketOf(bl, sl))

\* The same with both averages non-zero, the case the full branch takes.
RoundedAtAggregationNonZero ==
    (pc = "done" /\ \A d \in Dirs : ret[d].some /\ ret[d].num # 0) =>
        LET bl == resp["BUY"].data.items
            sl == resp["SELL"].data.items
        IN  /\ result.kind = "record"
            /\ result.buy = Some(Round2(SumCents(bl), Len(bl)))
            /\ result.sell = Some(Round2(SumCents(sl), Len(sl)))
            /\ result.average = Some(MarketOf(bl, sl))

\* C8: every invocation eventually reaches exactly one of the three terminal
\* outcomes: full result, partial result, or null.
EventuallyOneOutcome ==
    <>(/\ pc = "done"
       /\ FullOutcome \/ PartialOutcome \/ NullOutcome
       /\ ~(FullOutcome /\ PartialOutcome)
       /\ ~(FullOutcome /\ NullOutcome)
       /\ ~(PartialOutcome /\ NullOutcome))

\* C8 witness: the server never answered the SELL request, and the call has
\* returned a partial result.
EventuallyOneOutcome_Witness ==
    /\ pc = "done"
    /\ resp["SELL"].kind = "timeout"
    /\ ret["BUY"].some
    /\ PartialOutcome

\* C9: one invocation issues exactly two HTTP requests, one BUY and one SELL,
\* and never more: a failed direction is never issued again.
ExactlyTwoRequests ==
    /\ \A d \in Dirs : issued[d] <= 1
    /\ \A d \in Dirs : fpc[d] \in {"sent", "done"} => issued[d] = 1
    /\ pc = "done" => \A d \in Dirs : issued[d] = 1

\* C9 witness: BUY ended in the exception handler and SELL failed validation,
\* and the call has returned.
ExactlyTwoRequests_Witness ==
    /\ pc = "done"
    /\ exit["BUY"] = "except"
    /\ exit["SELL"] = "none"
    /\ issued = [d \in Dirs |-> 1]

\* C10: the result depends on the two responses only, not on the order in
\* which they arrived: 'buy' comes from the BUY response alone, 'sell' from
\* the SELL response alone, and the record is the one built from (BUY
\* response, SELL response).
OrderIndependent ==
    pc = "done" =>
        LET b == FetchValue(resp["BUY"])
            s == FetchValue(resp["SELL"])
        IN  /\ result.buy = PartialResult(b, NoAvg).buy
            /\ result.sell = PartialResult(NoAvg, s).sell
            /\ result = BuildResult(b, s)

\* C10 witness: SELL completed first with a failure, BUY second with an
\* average, and the record carries the BUY average in 'buy'.
OrderIndependent_Witness ==
    /\ pc = "done"
    /\ order = <<"SELL", "BUY">>
    /\ result.buy.some
    /\ ~result.sell.some

====
